---- MODULE Spec2Model ----
(***************************************************************************)
(* TermScorer (src/query/term_query/term_scorer.rs): the per-term scorer   *)
(* composing a posting cursor (SegmentPostings), a field-length reader     *)
(* (FieldNormReader) and a BM25 weight (BM25Weight).                       *)
(*                                                                         *)
(* Scores are f32 values, computed with the roundings of the code.         *)
(***************************************************************************)
EXTENDS Integers, Sequences, FiniteSets, TLC

(***************************************************************************)
(* Bounds of the model.                                                    *)
(***************************************************************************)
MaxDoc == 3
MaxLen == 3

\* Values the inputs are drawn from: term frequencies, field lengths, and
\* the weight's average field length and idf (the fixture's: 10 and
\* ln 2 = 0.6931472f32 = 11629080 * 2^-24).
TermFreqs == {3, 12}
FieldnormVals == {0, 100}
AverageFieldnorms == {10}
Idfs == {<<11629080, -24>>}

(***************************************************************************)
(* f32 arithmetic.  A non-negative f32 is <<m, e>>, standing for m * 2^e   *)
(* with 2^23 <= m < 2^24, or <<0, 0>> for zero.  Every operation rounds    *)
(* its exact result to the nearest such value, ties to the even mantissa,  *)
(* as IEEE 754 does.  Subnormals, infinities and negative values do not    *)
(* occur in the computations of the scorer.                                *)
(***************************************************************************)
RECURSIVE Pow2Of(_)
Pow2Of(n) == IF n = 0 THEN 1 ELSE 2 * Pow2Of(n - 1)

POW2 == [n \in 0..30 |-> Pow2Of(n)]
Pow2(n) == POW2[n]

\* the number of bits of n < 2^31
BitLen4(n) == IF n >= 8 THEN 4 ELSE IF n >= 4 THEN 3 ELSE IF n >= 2 THEN 2 ELSE n
BitLen8(n) == IF n >= 16 THEN 4 + BitLen4(n \div 16) ELSE BitLen4(n)
BitLen16(n) == IF n >= 256 THEN 8 + BitLen8(n \div 256) ELSE BitLen8(n)
BitLen(n) == IF n >= 65536 THEN 16 + BitLen16(n \div 65536) ELSE BitLen16(n)

\* the f32 nearest to (n + f) * 2^e, where 0 <= f < 1 and sticky says f > 0;
\* n has at least 26 bits whenever sticky holds
f32_round(n, e, sticky) ==
    IF n = 0 THEN <<0, 0>>
    ELSE LET bits == BitLen(n)
         IN  IF bits <= 24
             THEN <<n * Pow2(24 - bits), e - (24 - bits)>>
             ELSE LET shift == bits - 24
                      q == n \div Pow2(shift)
                      r == n % Pow2(shift)
                      half == Pow2(shift - 1)
                      up == r > half \/ (r = half /\ (sticky \/ q % 2 = 1))
                      m == IF up THEN q + 1 ELSE q
                  IN  IF m = Pow2(24) THEN <<Pow2(23), e + shift + 1>>
                      ELSE <<m, e + shift>>

\* `n as f32`
f32_from(n) == f32_round(n, 0, FALSE)

f32_lt(a, b) ==
    IF b[1] = 0 THEN FALSE
    ELSE IF a[1] = 0 THEN TRUE
    ELSE IF a[2] # b[2] THEN a[2] < b[2]
    ELSE a[1] < b[1]

f32_le(a, b) == ~f32_lt(b, a)

\* a + b: the smaller operand is shifted right under three guard bits
f32_add(a, b) ==
    IF a[1] = 0 THEN b
    ELSE IF b[1] = 0 THEN a
    ELSE LET x == IF f32_lt(a, b) THEN b ELSE a
             y == IF f32_lt(a, b) THEN a ELSE b
             d == x[2] - y[2]
         IN  IF d > 26 THEN x
             ELSE f32_round(x[1] * 8 + (y[1] * 8) \div Pow2(d),
                            x[2] - 3,
                            (y[1] * 8) % Pow2(d) # 0)

\* a - b for a >= b whose exponents differ by at most 6
f32_sub(a, b) ==
    IF b[1] = 0 THEN a
    ELSE f32_round(a[1] * Pow2(a[2] - b[2]) - b[1], b[2], FALSE)

\* a * b: the 48-bit product of the mantissas, from 12-bit halves
f32_mul(a, b) ==
    IF a[1] = 0 \/ b[1] = 0 THEN <<0, 0>>
    ELSE LET a1 == a[1] \div 4096
             a0 == a[1] % 4096
             b1 == b[1] \div 4096
             b0 == b[1] % 4096
             mid == a1 * b0 + a0 * b1
             l == (mid % 4096) * 4096 + a0 * b0
             low == l % Pow2(24)
             high == a1 * b1 + mid \div 4096 + l \div Pow2(24)
         IN  f32_round(high * 4 + low \div Pow2(22),
                       a[2] + b[2] + 22,
                       low % Pow2(22) # 0)

\* <<quotient, remainder>> of (q * d + r) * 2^k by d, for r < d < 2^24, k <= 7
div_step(qr, d, k) ==
    <<qr[1] * Pow2(k) + (qr[2] * Pow2(k)) \div d, (qr[2] * Pow2(k)) % d>>

\* a / b for b > 0: 26 bits of quotient below the integer part
f32_div(a, b) ==
    IF a[1] = 0 THEN <<0, 0>>
    ELSE LET q0 == <<a[1] \div b[1], a[1] % b[1]>>
             qr == div_step(div_step(div_step(div_step(q0, b[1], 7), b[1], 7),
                                     b[1], 6), b[1], 6)
         IN  f32_round(qr[1], a[2] - b[2] - 26, qr[2] # 0)

(***************************************************************************)
(* FieldNormReader: one norm id (a byte) per document of the segment.      *)
(***************************************************************************)
\* the field length a norm id stands for; ids 0..39 are exact, then eight
\* ids per doubling of the step, up to 2_013_265_944 for id 255
id_to_fieldnorm(id) ==
    IF id < 40 THEN id
    ELSE LET g == (id - 40) \div 8
             j == (id - 40) % 8
         IN  24 + 16 * Pow2(g) + j * Pow2(g + 1)

FIELD_NORMS_TABLE == [id \in 0..255 |-> id_to_fieldnorm(id)]

\* the largest norm id whose field length does not exceed fieldnorm, found by
\* binary search in the table: lo is such an id, every id above hi is not
RECURSIVE fieldnorm_to_id_from(_, _, _)
fieldnorm_to_id_from(fieldnorm, lo, hi) ==
    IF lo = hi THEN lo
    ELSE LET mid == (lo + hi + 1) \div 2
         IN  IF FIELD_NORMS_TABLE[mid] <= fieldnorm
             THEN fieldnorm_to_id_from(fieldnorm, mid, hi)
             ELSE fieldnorm_to_id_from(fieldnorm, lo, mid - 1)

fieldnorm_to_id(fieldnorm) == fieldnorm_to_id_from(fieldnorm, 0, 255)

\* FieldNormReader::from(&[u32]): the array of norm ids, entry doc + 1 for doc
fieldnorm_reader_from(fieldnorms) ==
    [i \in 1..Len(fieldnorms) |-> fieldnorm_to_id(fieldnorms[i])]

\* a lookup outside the array is fatal
fieldnorm_reader_in_range(reader, d) == d < Len(reader)
fieldnorm_reader_fieldnorm_id(reader, d) == reader[d + 1]

(***************************************************************************)
(* BM25Weight.  idf is the f32 value of ln(1 + (N - n + 0.5) / (n + 0.5)); *)
(* the logarithm is not computed here, the weight is built from its value. *)
(***************************************************************************)
K1 == f32_div(f32_from(12), f32_from(10))
B == f32_div(f32_from(3), f32_from(4))

\* K1 * (1 - B + B * fieldnorm / average_fieldnorm)
cached_tf_component(fieldnorm, average_fieldnorm) ==
    f32_mul(K1,
            f32_add(f32_sub(f32_from(1), B),
                    f32_div(f32_mul(B, f32_from(fieldnorm)), f32_from(average_fieldnorm))))

\* the cache of the weight: one component per norm id, for each average
compute_tf_cache ==
    [average_fieldnorm \in AverageFieldnorms |->
        [id \in 0..255 |-> cached_tf_component(FIELD_NORMS_TABLE[id], average_fieldnorm)]]

\* BM25Weight::new: weight = idf * (1 + K1)
bm25_new(idf, average_fieldnorm) ==
    [weight |-> f32_mul(idf, f32_add(f32_from(1), K1)),
     average_fieldnorm |-> average_fieldnorm]

\* term_freq / (term_freq + norm)
tf_factor(weight, id, tf) ==
    LET norm == compute_tf_cache[weight.average_fieldnorm][id]
    IN  f32_div(f32_from(tf), f32_add(f32_from(tf), norm))

bm25_score(weight, id, tf) == f32_mul(weight.weight, tf_factor(weight, id, tf))

bm25_max_score(weight) == bm25_score(weight, 255, 2013265944)

\* the total of the explanation is the score; the details are its factors
bm25_explain(weight, id, tf) ==
    [value |-> bm25_score(weight, id, tf),
     tf_factor |-> tf_factor(weight, id, tf),
     k1_plus_one |-> f32_add(K1, f32_from(1))]

(***************************************************************************)
(* SegmentPostings: a forward-only cursor over the postings, which are     *)
(* decoded in blocks of BlockSize documents.  cur is the 1-based index of  *)
(* the current posting; Len(docs) + 1 is the exhausted position.           *)
(***************************************************************************)
TERMINATED == 2147483647

\* documents per decode block (scaled down so that a short list spans blocks)
BlockSize == 2

create_from_docs_and_tfs(doc_and_tfs) ==
    [docs |-> [i \in 1..Len(doc_and_tfs) |-> doc_and_tfs[i][1]],
     freqs |-> [i \in 1..Len(doc_and_tfs) |-> doc_and_tfs[i][2]],
     cur |-> 1]

postings_doc(p) == IF p.cur <= Len(p.docs) THEN p.docs[p.cur] ELSE TERMINATED

postings_term_freq(p) == p.freqs[p.cur]

postings_doc_freq(p) == Len(p.docs)

\* first and last index of the block holding index i
block_first(i) == ((i - 1) \div BlockSize) * BlockSize + 1
block_last(p, i) ==
    IF block_first(i) + BlockSize - 1 <= Len(p.docs)
    THEN block_first(i) + BlockSize - 1
    ELSE Len(p.docs)

\* next posting, or stay exhausted
postings_advance(p) ==
    LET q == IF p.cur <= Len(p.docs) THEN [p EXCEPT !.cur = p.cur + 1] ELSE p
    IN  [self |-> q, ret |-> postings_doc(q)]

\* skip the blocks whose last document is below target
RECURSIVE skip_blocks(_, _, _)
skip_blocks(p, i, target) ==
    IF i > Len(p.docs) THEN Len(p.docs) + 1
    ELSE IF p.docs[block_last(p, i)] >= target THEN i
    ELSE skip_blocks(p, block_last(p, i) + 1, target)

\* first index from i on, within the block, whose document is >= target
RECURSIVE search_in_block(_, _, _, _)
search_in_block(p, i, last, target) ==
    IF i > last THEN Len(p.docs) + 1
    ELSE IF p.docs[i] >= target THEN i
    ELSE search_in_block(p, i + 1, last, target)

postings_seek(p, target) ==
    IF postings_doc(p) = target THEN [self |-> p, ret |-> target]
    ELSE LET i == skip_blocks(p, p.cur, target)
             j == IF i > Len(p.docs) THEN i
                  ELSE search_in_block(p, i, block_last(p, i), target)
             q == [p EXCEPT !.cur = j]
         IN  [self |-> q, ret |-> postings_doc(q)]

\* the greatest of a non-empty set of scores
MaxScoreOf(S) == CHOOSE s \in S : \A t \in S : f32_le(t, s)

\* the bound of the block the cursor is in: the best score of its documents
postings_block_max_score(p, reader, weight) ==
    MaxScoreOf({ bm25_score(weight,
                            fieldnorm_reader_fieldnorm_id(reader, p.docs[i]),
                            p.freqs[i]) :
                 i \in block_first(p.cur)..block_last(p, p.cur) })

(***************************************************************************)
(* TermScorer.  A method returns the scorer after the call (self), whether *)
(* the call panicked, and the value returned.                              *)
(***************************************************************************)
Returns(self, v) == [self |-> self, panic |-> FALSE, ret |-> v]
Panics(self) == [self |-> self, panic |-> TRUE, ret |-> <<>>]

new(postings, fieldnorm_reader, similarity_weight) ==
    [postings |-> postings,
     fieldnorm_reader |-> fieldnorm_reader,
     similarity_weight |-> similarity_weight]

\* fieldnorms after the first i postings have been written into it
RECURSIVE fill_fieldnorms(_, _, _, _)
fill_fieldnorms(fieldnorms, doc_and_tfs, fieldnorm_vals, i) ==
    IF i > Len(doc_and_tfs) THEN fieldnorms
    ELSE fill_fieldnorms(
             [fieldnorms EXCEPT ![doc_and_tfs[i][1] + 1] = fieldnorm_vals[i]],
             doc_and_tfs, fieldnorm_vals, i + 1)

\* create_for_test that hands fieldnorm_vals, one entry per posting, to the reader
create_for_test_per_posting(doc_and_tfs, fieldnorm_vals, similarity_weight) ==
    new(create_from_docs_and_tfs(doc_and_tfs), fieldnorm_reader_from(fieldnorm_vals),
        similarity_weight)

create_for_test(doc_and_tfs, fieldnorm_vals, similarity_weight) ==
    LET segment_postings == create_from_docs_and_tfs(doc_and_tfs)
        max_doc == doc_and_tfs[Len(doc_and_tfs)][1] + 1
        zeros == [d \in 1..max_doc |-> 0]
        fieldnorms == fill_fieldnorms(zeros, doc_and_tfs, fieldnorm_vals, 1)
    IN  new(segment_postings, fieldnorm_reader_from(fieldnorms), similarity_weight)

\* doc() that clamps the cursor to the last posting
doc_clamped(self) ==
    IF self.postings.cur <= Len(self.postings.docs) THEN postings_doc(self.postings)
    ELSE self.postings.docs[Len(self.postings.docs)]

doc(self) == postings_doc(self.postings)

term_freq(self) == postings_term_freq(self.postings)

doc_freq(self) == postings_doc_freq(self.postings)

\* fieldnorm_id() that answers norm id 0 outside the array
fieldnorm_id_defaulted(self) ==
    IF fieldnorm_reader_in_range(self.fieldnorm_reader, doc(self))
    THEN Returns(self, fieldnorm_reader_fieldnorm_id(self.fieldnorm_reader, doc(self)))
    ELSE Returns(self, 0)

fieldnorm_id(self) ==
    IF fieldnorm_reader_in_range(self.fieldnorm_reader, doc(self))
    THEN Returns(self, fieldnorm_reader_fieldnorm_id(self.fieldnorm_reader, doc(self)))
    ELSE Panics(self)

\* block_max_score() that answers the score of the current document
block_max_score_of_current(self) ==
    Returns(self, bm25_score(self.similarity_weight, fieldnorm_id(self).ret, term_freq(self)))

\* block_max_score() that answers the bound of the whole postings list
block_max_score_global(self) == Returns(self, bm25_max_score(self.similarity_weight))

block_max_score(self) ==
    Returns(self, postings_block_max_score(self.postings, self.fieldnorm_reader,
                                           self.similarity_weight))

\* explain() that passes the document frequency for the term frequency
explain_with_doc_freq(self) ==
    LET id == fieldnorm_id(self)
    IN  IF id.panic THEN Panics(self)
        ELSE Returns(self, bm25_explain(self.similarity_weight, id.ret, doc_freq(self)))

explain(self) ==
    LET id == fieldnorm_id(self)
    IN  IF id.panic THEN Panics(self)
        ELSE Returns(self, bm25_explain(self.similarity_weight, id.ret, term_freq(self)))

\* max_score() that answers the score of the document the cursor is on
max_score_of_current(self) ==
    IF doc(self) # TERMINATED
    THEN bm25_score(self.similarity_weight, fieldnorm_id(self).ret, term_freq(self))
    ELSE bm25_max_score(self.similarity_weight)

max_score(self) == bm25_max_score(self.similarity_weight)

\* advance() that returns the current document without moving
advance_stays(self) == Returns(self, doc(self))

\* advance() that moves twice
advance_twice(self) ==
    LET r == postings_advance(postings_advance(self.postings).self)
    IN  Returns([self EXCEPT !.postings = r.self], r.ret)

\* advance() that consumes the posting it leaves from the postings data
advance_draining(self) ==
    LET p == self.postings
        n == Len(p.docs)
        q == IF p.cur <= n
             THEN [p EXCEPT !.docs = SubSeq(p.docs, 1, p.cur - 1) \o SubSeq(p.docs, p.cur + 1, n),
                            !.freqs = SubSeq(p.freqs, 1, p.cur - 1) \o SubSeq(p.freqs, p.cur + 1, n)]
             ELSE p
    IN  Returns([self EXCEPT !.postings = q], postings_doc(q))

advance(self) ==
    LET r == postings_advance(self.postings)
    IN  Returns([self EXCEPT !.postings = r.self], r.ret)

\* seek() that delegates to advance
seek_as_advance(self, target) ==
    LET r == postings_advance(self.postings)
    IN  Returns([self EXCEPT !.postings = r.self], r.ret)

seek(self, target) ==
    LET r == postings_seek(self.postings, target)
    IN  Returns([self EXCEPT !.postings = r.self], r.ret)

\* score() that consumes the posting it scores
score_then_advance(self) ==
    LET id == fieldnorm_id(self)
    IN  IF id.panic THEN Panics(self)
        ELSE Returns(advance(self).self,
                     bm25_score(self.similarity_weight, id.ret, term_freq(self)))

\* score() that passes the document frequency for the term frequency
score_with_doc_freq(self) ==
    LET id == fieldnorm_id(self)
    IN  IF id.panic THEN Panics(self)
        ELSE Returns(self, bm25_score(self.similarity_weight, id.ret, doc_freq(self)))

\* score() that keeps answering the score of the first posting
score_of_first_posting(self) ==
    LET first == [self EXCEPT !.postings.cur = 1]
        id == fieldnorm_id(self)
    IN  IF id.panic THEN Panics(self)
        ELSE Returns(self, bm25_score(self.similarity_weight, fieldnorm_id(first).ret,
                                      term_freq(first)))

\* score() that passes the field length, truncated to a byte, for its norm id
score_with_length_as_id(self) ==
    LET id == fieldnorm_id(self)
    IN  IF id.panic THEN Panics(self)
        ELSE Returns(self, bm25_score(self.similarity_weight,
                                      FIELD_NORMS_TABLE[id.ret] % 256, term_freq(self)))

score(self) ==
    LET id == fieldnorm_id(self)
    IN  IF id.panic THEN Panics(self)
        ELSE Returns(self, bm25_score(self.similarity_weight, id.ret, term_freq(self)))

(***************************************************************************)
(* State: the arguments of create_for_test, the scorer built from them,    *)
(* the last call made on it and what it returned.  Where several scorers   *)
(* read one segment: the segment's data, each scorer's cursor, and the     *)
(* same scorers run alone on data of their own.                            *)
(***************************************************************************)
VARIABLES doc_and_tfs, fieldnorm_vals, term_scorer, call, result, returned, panicked,
          segment, cursors, alone

vars == <<doc_and_tfs, fieldnorm_vals, term_scorer, call, result, returned, panicked,
          segment, cursors, alone>>

RECURSIVE Ascending(_)
Ascending(S) ==
    IF S = {} THEN <<>>
    ELSE LET m == CHOOSE x \in S : \A y \in S : x <= y
         IN  <<m>> \o Ascending(S \ {m})

SeekTargets == 0..(MaxDoc + 1) \cup {TERMINATED}

\* the scorer of test_term_scorer_max_score
InitFixture ==
    /\ doc_and_tfs = << <<2, 3>>, <<3, 12>>, <<7, 8>> >>
    /\ fieldnorm_vals = <<10, 12, 100>>
    /\ term_scorer = create_for_test(doc_and_tfs, fieldnorm_vals,
                                     bm25_new(<<11629080, -24>>, 10))

\* the scorer right after create_for_test, on any non-empty ascending postings
InitBounded ==
    \E S \in SUBSET (0..MaxDoc) :
        /\ Cardinality(S) \in 1..MaxLen
        /\ \E tfs \in [1..Cardinality(S) -> TermFreqs],
              vals \in [1..Cardinality(S) -> FieldnormVals],
              avg \in AverageFieldnorms, idf \in Idfs :
              /\ doc_and_tfs = [i \in 1..Cardinality(S) |-> <<Ascending(S)[i], tfs[i]>>]
              /\ fieldnorm_vals = vals
              /\ term_scorer = create_for_test(doc_and_tfs, fieldnorm_vals,
                                               bm25_new(idf, avg))

Init ==
    /\ (InitFixture \/ InitBounded)
    /\ call = <<"new">>
    /\ result = <<>>
    /\ returned = <<>>
    /\ panicked = FALSE
    /\ segment = <<>>
    /\ cursors = <<>>
    /\ alone = <<>>

\* a call that returns a value and leaves the cursor where the method left it
Finish(name, r) ==
    /\ term_scorer' = r.self
    /\ call' = name
    /\ result' = r.ret
    /\ panicked' = r.panic
    /\ UNCHANGED <<doc_and_tfs, fieldnorm_vals, segment, cursors, alone>>

Advance ==
    /\ ~panicked
    /\ LET r == advance(term_scorer)
       IN  /\ Finish(<<"advance">>, r)
           /\ returned' = <<r.ret>>

Seek ==
    /\ ~panicked
    /\ \E target \in SeekTargets :
          LET r == seek(term_scorer, target)
          IN  /\ Finish(<<"seek", target>>, r)
              /\ returned' = <<r.ret>>

\* a target below the current position is outside the contract of seek: an
\* implementation may leave the cursor alone (Seek) or reject the call
SeekBelowRejected ==
    /\ ~panicked
    /\ \E target \in SeekTargets :
          /\ target < doc(term_scorer)
          /\ Finish(<<"seek", target>>, Panics(term_scorer))
          /\ UNCHANGED returned

Doc ==
    /\ ~panicked
    /\ Finish(<<"doc">>, Returns(term_scorer, doc(term_scorer)))
    /\ UNCHANGED returned

\* the frequency read at the exhausted position is unspecified
TermFreq ==
    /\ ~panicked
    /\ \E tf \in TermFreqs \cup {0} :
          /\ doc(term_scorer) # TERMINATED => tf = term_freq(term_scorer)
          /\ Finish(<<"term_freq">>, Returns(term_scorer, tf))
    /\ UNCHANGED returned

DocFreq ==
    /\ ~panicked
    /\ Finish(<<"doc_freq">>, Returns(term_scorer, doc_freq(term_scorer)))
    /\ UNCHANGED returned

FieldnormId ==
    /\ ~panicked
    /\ Finish(<<"fieldnorm_id">>, fieldnorm_id(term_scorer))
    /\ UNCHANGED returned

Score ==
    /\ ~panicked
    /\ Finish(<<"score">>, score(term_scorer))
    /\ UNCHANGED returned

Explain ==
    /\ ~panicked
    /\ Finish(<<"explain">>, explain(term_scorer))
    /\ UNCHANGED returned

\* the bound is that of the documents of the current block
BlockMaxScore ==
    /\ ~panicked
    /\ doc(term_scorer) # TERMINATED
    /\ Finish(<<"block_max_score">>, block_max_score(term_scorer))
    /\ UNCHANGED returned

MaxScore ==
    /\ ~panicked
    /\ Finish(<<"max_score">>, Returns(term_scorer, max_score(term_scorer)))
    /\ UNCHANGED returned

Next ==
    \/ Advance
    \/ Seek
    \/ SeekBelowRejected
    \/ Doc
    \/ TermFreq
    \/ DocFreq
    \/ FieldnormId
    \/ Score
    \/ Explain
    \/ BlockMaxScore
    \/ MaxScore

Spec == Init /\ [][Next]_vars

(***************************************************************************)
(* Scoring as a function of the term frequency alone: scorers over one     *)
(* posting, scored once.                                                   *)
(***************************************************************************)
ScoreMaxTf == 1024

\* frequencies beyond the resolution of f32 scores
LargeTfs == {1627, 16383, 16777216}

InitScore ==
    /\ \E tf \in (1..ScoreMaxTf) \cup LargeTfs,
          fieldnorm \in {FIELD_NORMS_TABLE[id] : id \in 0..255},
          avg \in AverageFieldnorms, idf \in Idfs :
          /\ doc_and_tfs = << <<0, tf>> >>
          /\ fieldnorm_vals = <<fieldnorm>>
          /\ term_scorer = create_for_test(doc_and_tfs, fieldnorm_vals,
                                           bm25_new(idf, avg))
    /\ call = <<"new">>
    /\ result = <<>>
    /\ returned = <<>>
    /\ panicked = FALSE
    /\ segment = <<>>
    /\ cursors = <<>>
    /\ alone = <<>>

NextScore == Score

SpecScore == InitScore /\ [][NextScore]_vars

(***************************************************************************)
(* Several scorers over one segment.  The postings data and the field      *)
(* length data are read by all of them; each scorer owns its cursor and    *)
(* its weight.  Calls of different scorers interleave in any order.  Each  *)
(* scorer is also run alone, on data of its own, with the same calls.      *)
(***************************************************************************)
Scorers == 1..2

\* scorer i: the segment's data under its own cursor
ScorerOf(i) ==
    new([docs |-> segment.docs, freqs |-> segment.freqs, cur |-> cursors[i].cur],
        segment.fieldnorm_reader, cursors[i].similarity_weight)

\* the segment of any non-empty ascending postings, its documents of one length
InitSegment ==
    \E S \in SUBSET (0..MaxDoc) :
        /\ Cardinality(S) \in 1..MaxLen
        /\ \E tfs \in [1..Cardinality(S) -> TermFreqs], val \in FieldnormVals,
              avg \in AverageFieldnorms, idf \in Idfs :
              /\ doc_and_tfs = [i \in 1..Cardinality(S) |-> <<Ascending(S)[i], tfs[i]>>]
              /\ fieldnorm_vals = [i \in 1..Cardinality(S) |-> val]
              /\ term_scorer = create_for_test(doc_and_tfs, fieldnorm_vals,
                                               bm25_new(idf, avg))

InitShared ==
    /\ (InitFixture \/ InitSegment)
    /\ segment = [docs |-> term_scorer.postings.docs,
                  freqs |-> term_scorer.postings.freqs,
                  fieldnorm_reader |-> term_scorer.fieldnorm_reader]
    /\ cursors = [i \in Scorers |->
                     [cur |-> term_scorer.postings.cur,
                      similarity_weight |-> term_scorer.similarity_weight]]
    /\ alone = [i \in Scorers |-> term_scorer]
    /\ call = <<"new">>
    /\ result = <<>>
    /\ returned = <<>>
    /\ panicked = FALSE

\* scorer i returns from a call: what the method did to the data it reads is
\* seen by every scorer, what it did to its cursor is its own
SharedFinish(i, name, r) ==
    /\ segment' = [docs |-> r.self.postings.docs,
                   freqs |-> r.self.postings.freqs,
                   fieldnorm_reader |-> r.self.fieldnorm_reader]
    /\ cursors' = [cursors EXCEPT ![i] =
                      [cur |-> r.self.postings.cur,
                       similarity_weight |-> r.self.similarity_weight]]
    /\ term_scorer' = r.self
    /\ call' = <<i>> \o name
    /\ result' = r.ret
    /\ panicked' = r.panic
    /\ UNCHANGED <<doc_and_tfs, fieldnorm_vals, returned>>

SharedAdvance ==
    \E i \in Scorers :
        /\ SharedFinish(i, <<"advance">>, advance(ScorerOf(i)))
        /\ alone' = [alone EXCEPT ![i] = advance(alone[i]).self]

SharedSeek ==
    \E i \in Scorers, target \in SeekTargets :
        /\ target >= doc(ScorerOf(i))
        /\ SharedFinish(i, <<"seek", target>>, seek(ScorerOf(i), target))
        /\ alone' = [alone EXCEPT ![i] = seek(alone[i], target).self]

SharedTermFreq ==
    \E i \in Scorers :
        /\ doc(ScorerOf(i)) # TERMINATED
        /\ SharedFinish(i, <<"term_freq">>, Returns(ScorerOf(i), term_freq(ScorerOf(i))))
        /\ UNCHANGED alone

SharedScore ==
    \E i \in Scorers :
        /\ doc(ScorerOf(i)) # TERMINATED
        /\ SharedFinish(i, <<"score">>, score(ScorerOf(i)))
        /\ alone' = [alone EXCEPT ![i] = score(alone[i]).self]

NextShared ==
    \/ SharedAdvance
    \/ SharedSeek
    \/ SharedTermFreq
    \/ SharedScore

SpecShared == InitShared /\ [][NextShared]_vars

(***************************************************************************)
(* Properties.                                                             *)
(***************************************************************************)
Exhausted == doc(term_scorer) = TERMINATED
Positioned == ~panicked /\ ~Exhausted
Cur == term_scorer.postings.cur
NumDocs == Len(doc_and_tfs)

MovedBy(c) == c[1] \in {"advance", "seek"}
ReadBy(c) == c[1] \in {"doc", "term_freq", "fieldnorm_id", "score", "explain",
                        "block_max_score", "max_score"}

\* the first posting whose document is >= target, or the sentinel
FirstAtLeast(target) ==
    IF \E i \in 1..NumDocs : doc_and_tfs[i][1] >= target
    THEN doc_and_tfs[CHOOSE i \in 1..NumDocs :
                        /\ doc_and_tfs[i][1] >= target
                        /\ \A j \in 1..NumDocs :
                               doc_and_tfs[j][1] >= target => i <= j][1]
    ELSE TERMINATED

\* the first posting whose document is > d, or the sentinel
FirstAfter(d) ==
    IF \E i \in 1..NumDocs : doc_and_tfs[i][1] > d
    THEN doc_and_tfs[CHOOSE i \in 1..NumDocs :
                        /\ doc_and_tfs[i][1] > d
                        /\ \A j \in 1..NumDocs :
                               doc_and_tfs[j][1] > d => i <= j][1]
    ELSE TERMINATED

\* the scorer with its cursor on posting i
At(i) == [term_scorer EXCEPT !.postings.cur = i]

\* C1 as stated, for seek targets that are not below the position: every
\* document id returned by advance or seek is greater than the id returned
\* before it, until the sentinel is returned.
C1_StrictlyIncreasing ==
    [][(/\ MovedBy(call')
        /\ (call'[1] = "seek") => (call'[2] >= doc(term_scorer))
        /\ returned # <<>>
        /\ returned'[1] # TERMINATED)
          => (returned'[1] > returned[1])]_vars

\* C1 amended: advance, and seek to a target above the id last returned,
\* return an id greater than the one last returned (or the sentinel); seek to
\* the id last returned returns that id again.
C1_Monotone ==
    [][(MovedBy(call') /\ ~panicked' /\ returned # <<>>)
          => (/\ (call'[1] = "advance" /\ returned'[1] # TERMINATED)
                     => (returned'[1] > returned[1])
              /\ (call'[1] = "seek" /\ call'[2] > returned[1]
                                     /\ returned'[1] # TERMINATED)
                     => (returned'[1] > returned[1])
              /\ (call'[1] = "seek" /\ call'[2] = returned[1])
                     => (returned'[1] = returned[1]))]_vars

C1_Witness ==
    /\ ~panicked
    /\ call[1] = "seek"
    /\ Cur >= 2
    /\ ~Exhausted
    /\ call[2] = result

\* C2: once the sentinel has been returned the scorer stays exhausted: every
\* later advance or seek that returns, returns the sentinel; advance and
\* seek(sentinel) do return; and the scorer is never on a document again.
C2_Absorbing ==
    [][(returned = <<TERMINATED>>)
          => (/\ Exhausted'
              /\ returned' = <<TERMINATED>>
              /\ (MovedBy(call') /\ ~panicked') => (result' = TERMINATED)
              /\ (call' = <<"advance">> \/ call' = <<"seek", TERMINATED>>)
                     => (~panicked'))]_vars

C2_Witness ==
    /\ ~panicked
    /\ call = <<"seek", TERMINATED>>
    /\ returned = <<TERMINATED>>
    /\ NumDocs >= 2

\* C3: on a document, score() <= max_score() and block_max_score() <= max_score().
C3_MaxScoreBound ==
    Positioned =>
        /\ f32_le(score(term_scorer).ret, max_score(term_scorer))
        /\ f32_le(block_max_score(term_scorer).ret, max_score(term_scorer))

\* C4: on a document, block_max_score() is >= the score() of every document
\* of the current block, those reached by later advance calls included.
C4_BlockMaxBound ==
    Positioned =>
        \A i \in block_first(Cur)..block_last(term_scorer.postings, Cur) :
            f32_le(score(At(i)).ret, block_max_score(term_scorer).ret)

C4_Witness ==
    /\ Positioned
    /\ call = <<"block_max_score">>
    /\ Cur = block_first(Cur)
    /\ block_last(term_scorer.postings, Cur) > Cur
    /\ f32_lt(score(term_scorer).ret, score(At(Cur + 1)).ret)
    /\ result = score(At(Cur + 1)).ret

\* C5: seek(target) with target >= the current position returns the first
\* document >= target, or the sentinel when there is none, and leaves the
\* scorer on what it returned; seek to the current document returns it.
C5_SeekFirstAtLeast ==
    [][(call'[1] = "seek" /\ call'[2] >= doc(term_scorer))
          => (/\ ~panicked'
              /\ result' = FirstAtLeast(call'[2])
              /\ returned' = <<result'>>
              /\ doc(term_scorer)' = result'
              /\ (call'[2] = doc(term_scorer)) => (result' = doc(term_scorer)))]_vars

C5_Witness ==
    /\ ~panicked
    /\ call[1] = "seek"
    /\ Cur = 3
    /\ ~Exhausted
    /\ result > call[2]
    /\ \A i \in 1..NumDocs : doc_and_tfs[i][1] # call[2]

\* C6: after construction doc() is the first posting; advance returns the
\* next posting in ascending order, skipping none, and the sentinel after the
\* last; doc() is what advance returned and term_freq() is the frequency of
\* the posting at doc().
C6_Iteration ==
    /\ [](LET here == doc(term_scorer)
          IN  /\ (call = <<"new">>) => (here = doc_and_tfs[1][1]
                                        /\ term_freq(term_scorer) = doc_and_tfs[1][2])
              /\ (call = <<"advance">>) => (here = result)
              /\ (~Exhausted) => (\E i \in 1..NumDocs :
                                     doc_and_tfs[i] = <<here, term_freq(term_scorer)>>))
    /\ [][(call' = <<"advance">>)
             => (~panicked' /\ result' = FirstAfter(doc(term_scorer)))]_vars

C6_Witness ==
    /\ call = <<"advance">>
    /\ result = TERMINATED
    /\ NumDocs = 3

\* C7: score, explain, max_score, block_max_score, term_freq, fieldnorm_id
\* and doc leave the cursor where it is, and a second score() or explain()
\* at the same position returns what the first returned.
C7_ReadsKeepCursor ==
    /\ []((~panicked /\ call = <<"score">>)
              => (score(term_scorer) = Returns(term_scorer, result)))
    /\ []((~panicked /\ call = <<"explain">>)
              => (explain(term_scorer) = Returns(term_scorer, result)))
    /\ [][ReadBy(call')
             => (/\ term_scorer' = term_scorer
                 /\ doc(term_scorer)' = doc(term_scorer)
                 /\ (~Exhausted) => (term_freq(term_scorer)' = term_freq(term_scorer)))]_vars

C7_Witness ==
    /\ ~panicked
    /\ call = <<"score">>
    /\ returned # <<>>
    /\ Cur = 2

\* C8: on a document, the total of explain() equals score(), both computed
\* from the norm id of the current document and the frequency of the
\* current posting.
C8_ExplainEqualsScore ==
    Positioned =>
        /\ ~explain(term_scorer).panic
        /\ ~score(term_scorer).panic
        /\ explain(term_scorer).ret.value = score(term_scorer).ret
        /\ score(term_scorer).ret =
               bm25_score(term_scorer.similarity_weight,
                          term_scorer.fieldnorm_reader[doc(term_scorer) + 1],
                          term_freq(term_scorer))

C8_Witness ==
    /\ ~panicked
    /\ call = <<"explain">>
    /\ Cur = 2
    /\ ~Exhausted
    /\ result.value = score(term_scorer).ret

\* C9: in the exhausted state the lookup of the norm id of doc() is out of
\* range, so score() ends in a panic and yields no score.
C9_ScoreExhaustedPanics ==
    (~panicked /\ Exhausted) =>
        /\ fieldnorm_id(term_scorer).panic
        /\ score(term_scorer).panic

\* the panic of a score() call made after the sentinel was returned
C9_Witness ==
    /\ panicked
    /\ call = <<"score">>
    /\ returned = <<TERMINATED>>

\* the scorer of the state with its single posting's frequency raised by one
OneMoreOccurrence ==
    create_for_test(<< <<doc_and_tfs[1][1], doc_and_tfs[1][2] + 1>> >>,
                    fieldnorm_vals, term_scorer.similarity_weight)

\* C10 as stated: for a fixed weight and norm id, a higher term frequency
\* scores strictly higher.
C10_StrictlyIncreasingInTf ==
    (~panicked /\ call = <<"score">> /\ NumDocs = 1)
        => f32_lt(result, score(OneMoreOccurrence).ret)

\* C10 amended: for term frequencies up to ScoreMaxTf a higher term
\* frequency scores strictly higher.
C10_StrictlyIncreasingSmallTf ==
    (~panicked /\ call = <<"score">> /\ NumDocs = 1 /\ doc_and_tfs[1][2] <= ScoreMaxTf)
        => f32_lt(result, score(OneMoreOccurrence).ret)

C10_Witness ==
    /\ ~panicked
    /\ call = <<"score">>
    /\ doc_and_tfs[1][2] = ScoreMaxTf
    /\ fieldnorm_vals = <<0>>
    /\ f32_lt(result, score(OneMoreOccurrence).ret)

\* the scorer of the state with its single document one norm id longer
NextLongerField ==
    LET id == fieldnorm_id(term_scorer).ret
    IN  create_for_test(doc_and_tfs, <<FIELD_NORMS_TABLE[id + 1]>>,
                        term_scorer.similarity_weight)

\* C11: for a fixed weight and term frequency, the document of the next
\* higher norm id does not score higher; by transitivity score is
\* non-increasing in the norm id.
C11_NonIncreasingInLength ==
    (~panicked /\ call = <<"score">> /\ NumDocs = 1
               /\ fieldnorm_id(term_scorer).ret < 255)
        => /\ fieldnorm_id(NextLongerField).ret = fieldnorm_id(term_scorer).ret + 1
           /\ f32_le(score(NextLongerField).ret, result)

C11_Witness ==
    /\ ~panicked
    /\ call = <<"score">>
    /\ doc_and_tfs = << <<0, 3>> >>
    /\ fieldnorm_id(term_scorer).ret = 57
    /\ f32_lt(score(NextLongerField).ret, result)

\* what the call c = <<i, name, ...>> returns to a scorer run alone
CallAlone(c, self) ==
    CASE c[2] = "advance" -> advance(self)
      [] c[2] = "seek" -> seek(self, c[3])
      [] c[2] = "term_freq" -> Returns(self, term_freq(self))
      [] c[2] = "score" -> score(self)

\* C12: under any interleaving of the calls of scorers that read the same
\* postings and field length data, every call returns what it returns to the
\* same scorer run alone, and every scorer stays where it is when run alone.
C12_NoInterference ==
    [][\A i \in Scorers :
          (call'[1] = i) =>
              /\ result' = CallAlone(call', alone[i]).ret
              /\ panicked' = CallAlone(call', alone[i]).panic
              /\ \A j \in Scorers : ScorerOf(j)' = alone'[j]]_vars

C12_Witness ==
    /\ call = <<2, "score">>
    /\ ~panicked
    /\ cursors[2].cur >= 2
    /\ cursors[1].cur > cursors[2].cur
    /\ result # score(ScorerOf(1)).ret
    /\ result = score(alone[2]).ret

\* the document the scorer was left on: the id last returned by advance or
\* seek, or the first document when neither was called
LeftOn == IF returned = <<>> THEN doc_and_tfs[1][1] ELSE returned[1]

\* C13: score() is the weight's score of the norm id and the term frequency of
\* the posting of the document the scorer was left on, whatever was visited
\* or scored before.
C13_ScoreOfCurrentPosting ==
    (~panicked /\ call = <<"score">>)
        => \E i \in 1..NumDocs :
              /\ doc_and_tfs[i][1] = LeftOn
              /\ result = bm25_score(term_scorer.similarity_weight,
                                     fieldnorm_to_id(fieldnorm_vals[i]),
                                     doc_and_tfs[i][2])

C13_Witness ==
    /\ ~panicked
    /\ call = <<"score">>
    /\ returned # <<>>
    /\ LeftOn # doc_and_tfs[1][1]
    /\ result # score(At(1)).ret
    /\ result = score(term_scorer).ret

\* the scorer as create_for_test built it, before any call
AsConstructed ==
    create_for_test(doc_and_tfs, fieldnorm_vals,
                    bm25_new(CHOOSE idf \in Idfs : TRUE,
                             CHOOSE avg \in AverageFieldnorms : TRUE))

\* C14: at every position, exhaustion included, max_score() is the value it
\* had right after construction, and a call of it returns that value.
C14_MaxScoreFixed ==
    /\ max_score(term_scorer) = max_score(AsConstructed)
    /\ (call = <<"max_score">>) => (result = max_score(AsConstructed))

C14_Witness ==
    /\ ~panicked
    /\ call = <<"max_score">>
    /\ returned = <<TERMINATED>>
    /\ Exhausted
    /\ NumDocs >= 2
    /\ result = max_score(AsConstructed)

\* the positions of the decode block the cursor is in
CurrentBlock == block_first(Cur)..block_last(term_scorer.postings, Cur)

LastDoc == doc_and_tfs[NumDocs][1]

\* the field length given for document d, 0 for a document that is not matched
GivenLength(d) ==
    IF \E i \in 1..NumDocs : doc_and_tfs[i][1] = d
    THEN fieldnorm_vals[CHOOSE i \in 1..NumDocs : doc_and_tfs[i][1] = d]
    ELSE 0

\* C16: the field length array of create_for_test has one entry for every
\* document id from 0 to the last posting's: the given length for a matched
\* document, 0 for any other; the reader built from it holds the norm id of
\* each entry, so on a document the lookup for doc() is in range and yields
\* the norm id of the given length.
C16_FieldnormsCoverDocs ==
    LET fieldnorms == fill_fieldnorms([d \in 1..(LastDoc + 1) |-> 0],
                                      doc_and_tfs, fieldnorm_vals, 1)
        reader == term_scorer.fieldnorm_reader
    IN  /\ Len(fieldnorms) = LastDoc + 1
        /\ \A d \in 0..LastDoc : fieldnorms[d + 1] = GivenLength(d)
        /\ Len(reader) = LastDoc + 1
        /\ \A d \in 0..LastDoc : reader[d + 1] = fieldnorm_to_id(GivenLength(d))
        /\ Positioned =>
               /\ fieldnorm_reader_in_range(reader, doc(term_scorer))
               /\ ~fieldnorm_id(term_scorer).panic
               /\ fieldnorm_id(term_scorer).ret = fieldnorm_to_id(fieldnorm_vals[Cur])

C16_Witness ==
    /\ ~panicked
    /\ call = <<"fieldnorm_id">>
    /\ doc_and_tfs = << <<2, 3>>, <<3, 12>>, <<7, 8>> >>
    /\ doc(term_scorer) = LastDoc
    /\ Len(term_scorer.fieldnorm_reader) = 8
    /\ term_scorer.fieldnorm_reader[1] = 0
    /\ result = 57

====
